---- MODULE Spec2Model ----
(***************************************************************************)
(* Model of the HTTP test harness of the QA automation suite:              *)
(*   - HTTPSessionManager (the Session Registry), api_automation.py        *)
(*   - make_api_request / assert_status_code_in_range over a Session whose *)
(*     adapter carries the urllib3 Retry strategy configured in            *)
(*     _create_session                                                     *)
(*   - validate_json_schema over the two schemas of config.py              *)
(*   - _test_reqres_rate_limiting (the rate-limit probe)                   *)
(*   - run_all_api_tests and its two scenarios                             *)
(*   - WebDriverManager and run_all_web_tests, web_automation.py           *)
(*   - TestRunner.run_all_tests / main / __main__ of test_runner.py        *)
(*                                                                         *)
(* Six specifications share the variables:                                 *)
(*   SpecRegistry  any sequence of registry operations in one process      *)
(*   SpecRequest   one make_api_request call after another, attempt by     *)
(*                 attempt, each followed by assert_status_code_in_range   *)
(*   SpecSchema    one validate_json_schema call on any document           *)
(*   SpecProbe     one run of the probe, under weak fairness               *)
(*   SpecWeb       one run of run_all_web_tests over WebDriverManager      *)
(*   Spec          the process started by test_runner.py                   *)
(***************************************************************************)
EXTENDS Naturals, Integers, Sequences, FiniteSets, TLC

VARIABLES
    \* ---- HTTPSessionManager (class-level state) and the Session objects
    _instance,      \* HTTPSessionManager._instance: FALSE is None
    _sessions,      \* HTTPSessionManager._sessions: dict in insertion order,
                    \* a sequence of [name, session]
    heap,           \* every requests.Session constructed so far, by identity
    ret,            \* identity returned by the last get_session (0: none yet)
    closeRec,       \* what the last close_all_sessions call did
    returned,       \* history: the identities get_session returned per name
                    \* since the last close_all_sessions, in call order
    constructed,    \* history: Sessions constructed per name in this process
    closeCalls,     \* history: number of close_all_sessions calls
    mgr,            \* history: the HTTPSessionManager objects constructed and
                    \* the identities HTTPSessionManager() returned
    asked,          \* history: the headers argument of the last get_session
                    \* since the last close_all_sessions ("none": no call)
    \* ---- one make_api_request call
    req,            \* the call in progress or just finished
    \* ---- the process of test_runner.py
    pc,             \* position of the single thread
    proc,           \* locals and fields of the run
    \* ---- one run of _test_reqres_rate_limiting
    probe,          \* its locals, and what its last iteration did
    \* ---- one validate_json_schema call
    val,            \* the document, the schema and the result
    \* ---- WebDriverManager and one run of run_all_web_tests
    web             \* the manager's _driver, the drivers made, the loop

regVars == <<_instance, _sessions, heap, ret, closeRec, returned, constructed, closeCalls,
            mgr, asked>>
vars == <<_instance, _sessions, heap, ret, closeRec, returned, constructed, closeCalls,
          mgr, asked,
          req, pc, proc, probe, val, web>>

\* ------------------------------------------------------------------ bounds

\* Sessions constructed in one behaviour of SpecRegistry.
MaxSessions == 3
\* close_all_sessions calls in one behaviour of SpecRegistry.
MaxCloses == 2
\* get_session calls per name between two close_all_sessions calls.
MaxGets == 2
\* Documents a scenario hands to validate_json_schema in one loop.
MaxDocs == 2
\* Largest integer value of a validated document's field.
MaxInt == 1
\* Iterations of the rate-limit probe: stands for
\* RATE_LIMIT_CONFIG["max_requests"], which config.py sets to 100.
MaxRequests == 3

\* --------------------------------------------------------------- constants

\* config.py HTTP_TIMEOUTS
HTTP_TIMEOUTS_connect == 5
HTTP_TIMEOUTS_read == 30
\* config.py RATE_LIMIT_CONFIG["retry_attempts"]
RATE_LIMIT_CONFIG_retry_attempts == 3

\* api_name values: the default of get_session and the two the scenarios use.
ApiNames == {"default", "jsonplaceholder", "reqres"}
\* headers arguments: None, or one of the two header dicts of config.py.
HeaderArgs == {"None", "DEFAULT_HEADERS", "REQRES_HEADERS"}

\* ------------------------------------------------------ HTTPSessionManager

\* api_name in self._sessions
HasSession(s, api_name) == \E k \in 1..Len(s) : s[k].name = api_name

\* self._sessions[api_name]
SessionOf(s, api_name) == s[CHOOSE k \in 1..Len(s) : s[k].name = api_name].session

\* headers or DEFAULT_HEADERS
EffectiveHeaders(headers) == IF headers = "None" THEN "DEFAULT_HEADERS" ELSE headers

\* _create_session: a new requests.Session with the headers and the retrying
\* adapter mounted; its identity is its place in the heap.
_create_session(headers) ==
    [headers |-> EffectiveHeaders(headers), closed |-> FALSE, mounted |-> TRUE]

\* Mutant of get_session_creates: the membership test is dropped, every call
\* constructs.
get_session_creates_always(s, api_name) == TRUE

\* get_session line 70: whether the call constructs a Session.
get_session_creates(s, api_name) == ~HasSession(s, api_name)

\* Mutant of new_constructs: the test of _instance is dropped, every
\* HTTPSessionManager() makes an object.
new_constructs_always(inst) == TRUE

\* __new__ line 53: if cls._instance is None
new_constructs(inst) == ~inst

\* __new__ lines 52-56: the object is made on the first call, kept in
\* _instance and returned; its identity is its number among the objects made.
HTTPSessionManager_handle ==
    /\ _instance' = TRUE
    /\ mgr' = LET objects == IF new_constructs(_instance)
                             THEN mgr.objects + 1 ELSE mgr.objects
              IN  [objects |-> objects, handles |-> mgr.handles \cup {objects}]

\* HTTPSessionManager(): __new__ makes the instance on the first call and
\* returns the same one afterwards.
HTTPSessionManager_new ==
    /\ HTTPSessionManager_handle
    /\ UNCHANGED <<_sessions, heap, ret, closeRec, returned, constructed, closeCalls,
                   asked>>

\* Mutant of reuse_session: the headers of the call are applied to the
\* Session the name already has.
reuse_session_update_headers(h, session, headers) ==
    [h EXCEPT ![session].headers = EffectiveHeaders(headers)]

\* get_session lines 70-72 for a name that is in the dict: the headers are
\* not looked at, the Session is returned as it is.
reuse_session(h, session, headers) == h

\* get_session(api_name, headers) through any handle; the caller holds one.
get_session(api_name, headers) ==
    /\ IF get_session_creates(_sessions, api_name)
       THEN /\ heap' = Append(heap, _create_session(headers))
            /\ _sessions' =
                 IF HasSession(_sessions, api_name)
                 THEN [k \in 1..Len(_sessions) |->
                         IF _sessions[k].name = api_name
                         THEN [name |-> api_name, session |-> Len(heap) + 1]
                         ELSE _sessions[k]]
                 ELSE Append(_sessions, [name |-> api_name, session |-> Len(heap) + 1])
            /\ constructed' = [constructed EXCEPT ![api_name] = @ + 1]
       ELSE /\ heap' = reuse_session(heap, SessionOf(_sessions, api_name), headers)
            /\ UNCHANGED <<_sessions, constructed>>
    /\ asked' = headers
    /\ ret' = SessionOf(_sessions', api_name)
    /\ returned' = [returned EXCEPT ![api_name] = Append(@, ret')]
    /\ UNCHANGED <<closeRec, closeCalls>>

\* Mutant of close_attempts: no try/except around session.close(), the first
\* failing close ends the loop.
close_attempts_abort(s, fails) ==
    IF \E k \in 1..Len(s) : k \in fails
    THEN 1..(CHOOSE k \in 1..Len(s) : k \in fails /\ \A j \in 1..(k - 1) : j \notin fails)
    ELSE 1..Len(s)

\* close_all_sessions lines 108-113: the places of the dict on which
\* session.close() is called when the closes of `fails` raise Exception. The
\* except clause inside the loop lets the loop go on.
close_attempts(s, fails) == 1..Len(s)

\* Mutant of after_clear: an entry is removed only when its close() returned.
after_clear_keep_failed(s, fails) ==
    SelectSeq([k \in 1..Len(s) |-> [s[k] EXCEPT !.name = IF k \in fails THEN @ ELSE ""]],
              LAMBDA entry : entry.name # "")

\* close_all_sessions line 115: self._sessions.clear()
after_clear(s, fails) == <<>>

\* close_all_sessions(): `fails` are the places whose close() raises.
close_all_sessions(fails) ==
    LET tried == close_attempts(_sessions, fails)
        escaped == tried # 1..Len(_sessions)
    IN  /\ heap' = [i \in 1..Len(heap) |->
                      IF \E k \in tried : _sessions[k].session = i /\ k \notin fails
                      THEN [heap[i] EXCEPT !.closed = TRUE]
                      ELSE heap[i]]
        /\ closeRec' = [held |-> {_sessions[k].session : k \in 1..Len(_sessions)},
                        tried |-> {_sessions[k].session : k \in tried},
                        failed |-> {_sessions[k].session : k \in fails},
                        exitoso |-> {_sessions[k].name : k \in tried \ fails},
                        advertencia |-> {_sessions[k].name :
                                           k \in IF escaped THEN {} ELSE tried \cap fails},
                        raised |-> escaped]
        \* line 115 is reached only when no exception left the loop
        /\ _sessions' = IF escaped THEN _sessions ELSE after_clear(_sessions, fails)
        /\ asked' = "none"
        /\ returned' = [n \in ApiNames |-> <<>>]
        /\ closeCalls' = closeCalls + 1
        /\ UNCHANGED <<ret, constructed>>

NoClose == [held |-> {}, tried |-> {}, failed |-> {}, exitoso |-> {},
            advertencia |-> {}, raised |-> FALSE]

\* ------------------------------------------------------- make_api_request

\* Python None as a timeout value; a (connect, read) pair is <<connect, read>>.
None == <<>>

\* The timeout values a caller passes: None (requests waits without bound), or
\* a (connect, read) pair.
TimeoutArgs == {None, <<1, 2>>, <<10, 60>>}

\* **kwargs as a set of <<key, value>> pairs: empty, or a timeout.
KwargsSet == {{}} \cup {{<<"timeout", t>>} : t \in TimeoutArgs}

\* 'timeout' in kwargs
HasKey(kwargs, key) == \E kv \in kwargs : kv[1] = key

\* kwargs[key]
ValueOf(kwargs, key) == (CHOOSE kv \in kwargs : kv[1] = key)[2]

\* HTTP methods a caller passes; PATCH is not among the adapter's
\* allowed_methods.
Methods == {"GET", "POST", "PATCH"}

\* What one attempt of the transport yields: a response with a status code, or
\* a connection-level fault (refused, DNS failure, connect timeout).
Statuses == {200, 201, 404, 429, 500, 503}
AttemptResults ==
    {[kind |-> "response", status |-> st] : st \in Statuses}
        \cup {[kind |-> "fault", status |-> 0]}

\* expected_codes lists the scenarios pass to assert_status_code_in_range.
ExpectedCodes == {{200}, {200, 201}, {404}, {404, 405}}

\* Mutant of retry_strategy: the caller subtracts the first attempt from the
\* configured count.
retry_strategy_one_less ==
    [total |-> RATE_LIMIT_CONFIG_retry_attempts - 1,
     status_forcelist |-> {429, 500, 502, 503, 504},
     allowed_methods |-> {"HEAD", "GET", "POST", "PUT", "DELETE"}]

\* Mutant of retry_strategy: 404 is put among the statuses to retry.
retry_strategy_with_404 ==
    [total |-> RATE_LIMIT_CONFIG_retry_attempts,
     status_forcelist |-> {404, 429, 500, 502, 503, 504},
     allowed_methods |-> {"HEAD", "GET", "POST", "PUT", "DELETE"}]

\* _create_session lines 90-95: Retry(total=3, status_forcelist=...,
\* allowed_methods=...); total is the number of retries after the first
\* attempt, raise_on_status keeps its default (True).
retry_strategy ==
    [total |-> RATE_LIMIT_CONFIG_retry_attempts,
     status_forcelist |-> {429, 500, 502, 503, 504},
     allowed_methods |-> {"HEAD", "GET", "POST", "PUT", "DELETE"}]

\* Retry.is_retry under this configuration: the method is allowed and the
\* status is in status_forcelist.
is_retry(method, status) ==
    /\ method \in retry_strategy.allowed_methods
    /\ status \in retry_strategy.status_forcelist

\* make_api_request line 138: (HTTP_TIMEOUTS["connect"], HTTP_TIMEOUTS["read"])
default_timeout == <<HTTP_TIMEOUTS_connect, HTTP_TIMEOUTS_read>>

\* make_api_request lines 137-138: kwargs as handed to session.request.
with_default_timeout(kwargs) ==
    IF ~HasKey(kwargs, "timeout")
    THEN kwargs \cup {<<"timeout", default_timeout>>}
    ELSE kwargs

NoReq ==
    [state |-> "idle", method |-> "GET", session |-> 0, kwargs |-> {},
     sent |-> {}, retries |-> 0, attempts |-> <<>>, status |-> 0,
     exc |-> "none", out |-> "none", expected |-> {}, outcomes |-> 0]

\* make_api_request lines 134-141: pick the Session, apply the default
\* timeout, hand the call to session.request. session = 0 is None: the default
\* Session of the registry is used.
make_api_request(method, session, kwargs) ==
    /\ IF session = 0
       THEN HTTPSessionManager_handle /\ get_session("default", "None")
       ELSE UNCHANGED regVars
    /\ req' = [NoReq EXCEPT !.state = "in_flight",
                            !.method = method,
                            !.session = IF session = 0 THEN ret' ELSE session,
                            !.kwargs = kwargs,
                            !.sent = with_default_timeout(kwargs),
                            !.retries = retry_strategy.total]

\* Mutant of on_request_exception: the except clause logs and returns None
\* instead of re-raising.
on_request_exception_swallow(r, e) ==
    [r EXCEPT !.state = "returned", !.out = "ERROR", !.exc = "none",
              !.status = 0, !.outcomes = @ + 1]

\* make_api_request lines 148-150: the RequestException is logged and
\* re-raised.
on_request_exception(r, e) ==
    [r EXCEPT !.state = "raised", !.out = "ERROR", !.exc = e, !.outcomes = @ + 1]

\* make_api_request lines 141-146: the response is logged and returned.
on_response(r, status) ==
    [r EXCEPT !.state = "returned", !.out = "REQUEST", !.status = status,
              !.outcomes = @ + 1]

\* One attempt of session.request under the adapter's Retry: a response whose
\* status is to be retried, or a fault, uses up one retry (Retry.increment:
\* total - 1, exhausted below 0); when none is left the adapter raises
\* RetryError (after responses) or ConnectionError (after a fault), both
\* RequestException. Any other response is returned.
session_request_attempt(result) ==
    LET r == [req EXCEPT !.attempts = Append(@, result)]
        retry == \/ result.kind = "fault"
                 \/ is_retry(req.method, result.status)
    IN  /\ req.state = "in_flight"
        /\ req' = IF retry
                  THEN IF req.retries - 1 < 0
                       THEN on_request_exception(r,
                              IF result.kind = "fault" THEN "ConnectionError"
                                                       ELSE "RetryError")
                       ELSE [r EXCEPT !.retries = @ - 1]
                  ELSE on_response(r, result.status)
        /\ UNCHANGED regVars

\* assert_status_code_in_range line 193: response.status_code in expected_codes
assert_passes(status, expected_codes) == status \in expected_codes

\* assert_status_code_in_range(response, expected_codes) on the response the
\* call returned: passes, or raises AssertionError.
assert_status_code_in_range(expected_codes) ==
    /\ req.state = "returned"
    /\ req' = [req EXCEPT !.expected = expected_codes,
                          !.state = IF assert_passes(req.status, expected_codes)
                                    THEN "asserted" ELSE "assert_failed",
                          !.exc = IF assert_passes(req.status, expected_codes)
                                  THEN "none" ELSE "AssertionError"]
    /\ UNCHANGED regVars

\* ------------------------------------------- _test_reqres_rate_limiting

\* A header value is a string, here a tuple of characters; a header that is
\* not there reads as Python None (present = FALSE).
Header(chars) == [present |-> TRUE, value |-> chars]
NoHeader == [present |-> FALSE, value |-> <<>>]

\* Retry-After as servers send it: none, empty, delay-seconds, an HTTP date;
\* and a negative number.
RetryAfterValues ==
    {NoHeader, Header(<<>>), Header(<<"0">>), Header(<<"3">>), Header(<<"1", "2">>),
     Header(<<"-", "1">>), Header(<<"W", "e", "d">>)}

Digits == <<"0", "1", "2", "3", "4", "5", "6", "7", "8", "9">>
IsDigit(c) == \E d \in 1..10 : Digits[d] = c
DigitValue(c) == (CHOOSE d \in 1..10 : Digits[d] = c) - 1

\* The number a string of digits writes, in base ten.
RECURSIVE DigitsValue(_)
DigitsValue(chars) ==
    IF chars = <<>> THEN 0
    ELSE 10 * DigitsValue(SubSeq(chars, 1, Len(chars) - 1)) + DigitValue(chars[Len(chars)])

\* Mutant of int: a string that is no number reads as 0.
int_lenient(chars) ==
    LET signed == chars # <<>> /\ chars[1] \in {"-", "+"}
        body == IF signed THEN SubSeq(chars, 2, Len(chars)) ELSE chars
    IN  IF body # <<>> /\ \A k \in 1..Len(body) : IsDigit(body[k])
        THEN [ok |-> TRUE,
              n |-> IF signed /\ chars[1] = "-" THEN 0 - DigitsValue(body)
                    ELSE DigitsValue(body)]
        ELSE [ok |-> TRUE, n |-> 0]

\* int(chars): an optional sign and at least one digit, or ValueError
\* (ok = FALSE).
int(chars) ==
    LET signed == chars # <<>> /\ chars[1] \in {"-", "+"}
        body == IF signed THEN SubSeq(chars, 2, Len(chars)) ELSE chars
    IN  IF body # <<>> /\ \A k \in 1..Len(body) : IsDigit(body[k])
        THEN [ok |-> TRUE,
              n |-> IF signed /\ chars[1] = "-" THEN 0 - DigitsValue(body)
                    ELSE DigitsValue(body)]
        ELSE [ok |-> FALSE, n |-> 0]

\* line 566: the wait when the 429 response carries no usable Retry-After.
fallback_wait == 5

\* Mutant of wait_time_of: the header is not read, the fallback is always
\* used.
wait_time_of_fallback_only(retry_after) == [ok |-> TRUE, n |-> fallback_wait]

\* Mutant of wait_time_of: without the header the probe does not wait.
wait_time_of_no_fallback(retry_after) ==
    IF retry_after.present /\ retry_after.value # <<>>
    THEN int(retry_after.value)
    ELSE [ok |-> TRUE, n |-> 0]

\* lines 565-566: wait_time = int(retry_after) if retry_after else 5. None
\* and the empty string are both false.
wait_time_of(retry_after) ==
    IF retry_after.present /\ retry_after.value # <<>>
    THEN int(retry_after.value)
    ELSE [ok |-> TRUE, n |-> fallback_wait]

\* Mutant of counts_as_success: every status of the 200 range counts.
counts_as_success_2xx(status) == status >= 200 /\ status <= 299

\* line 572: elif response.status_code == 200
counts_as_success(status) == status = 200

\* Mutant of probe_catches: the except clause names RequestException only.
probe_catches_request_only(e) == e \in {"RetryError", "ConnectionError"}

\* line 578: except Exception catches every exception the loop body raises
\* (RequestException of the call, ValueError of int() and of time.sleep()).
probe_catches(e) == e \in {"RetryError", "ConnectionError", "ValueError"}

\* What make_api_request hands to one iteration: a response (status and
\* Retry-After header) or a RequestException. The probe takes its Session as
\* a parameter, so the statuses are those any Session may return.
ProbeStatuses == {200, 204, 404, 503}
ProbeOutcomes ==
    {[kind |-> "response", status |-> st, retry_after |-> NoHeader, exc |-> "none"] :
        st \in ProbeStatuses}
    \cup {[kind |-> "response", status |-> 429, retry_after |-> h, exc |-> "none"] :
            h \in RetryAfterValues}
    \cup {[kind |-> "exception", status |-> 0, retry_after |-> NoHeader, exc |-> e] :
            e \in {"RetryError", "ConnectionError"}}

\* The two time.sleep calls of the loop, lines 569 and 576.
SleepWait(n) == [what |-> "wait_time", seconds |-> n]
SleepDelay == [what |-> "delay_between_requests", seconds |-> 0]

NoProbe ==
    [state |-> "idle", i |-> 0, issued |-> 0,
     successful_requests |-> 0, rate_limited_requests |-> 0,
     prev_successful |-> 0, prev_rate_limited |-> 0,
     last |-> [kind |-> "none", status |-> 0, retry_after |-> NoHeader, exc |-> "none"],
     slept |-> <<>>, caught |-> "none", raised |-> "none"]

\* lines 578-580: the exception of an iteration is logged and the loop goes
\* on; one the clause does not catch leaves the probe.
probe_except(p, e) ==
    IF probe_catches(e)
    THEN [p EXCEPT !.caught = e]
    ELSE [p EXCEPT !.raised = e, !.state = "raised"]

\* Mutant of count_rate_limited: a rate-limited response counts as a success
\* as well.
count_rate_limited_and_success(p) ==
    [p EXCEPT !.rate_limited_requests = @ + 1, !.successful_requests = @ + 1]

\* Mutant of count_rate_limited: the counter is incremented twice.
count_rate_limited_twice(p) == [p EXCEPT !.rate_limited_requests = @ + 2]

\* line 562: rate_limited_requests += 1
count_rate_limited(p) == [p EXCEPT !.rate_limited_requests = @ + 1]

\* lines 558-580: the body of the loop for one outcome of make_api_request.
probe_iteration(p, outcome) ==
    LET b == [p EXCEPT !.i = @ + 1, !.issued = @ + 1,
                       !.prev_successful = p.successful_requests,
                       !.prev_rate_limited = p.rate_limited_requests,
                       !.last = outcome, !.slept = <<>>, !.caught = "none"]
    IN  IF outcome.kind = "exception"
        THEN probe_except(b, outcome.exc)
        ELSE IF outcome.status = 429
        THEN LET r == count_rate_limited(b)
                 w == wait_time_of(outcome.retry_after)
             IN  IF ~w.ok \/ w.n < 0
                 THEN probe_except(r, "ValueError")
                 ELSE [r EXCEPT !.slept = <<SleepWait(w.n)>>]
        ELSE LET c == IF counts_as_success(outcome.status)
                      THEN [b EXCEPT !.successful_requests = @ + 1]
                      ELSE b
             IN  [c EXCEPT !.slept = <<SleepDelay>>]

\* Mutant of loop_done: the loop is left once two responses were rate-limited.
loop_done_early(p) == p.i >= MaxRequests \/ p.rate_limited_requests >= 2

\* line 557: for i in range(max_requests) is over.
loop_done(p) == p.i >= MaxRequests

\* ---------------------------------------------------- validate_json_schema

\* JSON values of a document's fields. A string is a tuple of characters; a
\* "number" is the non-integral n + 0.5; one record shape for all.
IntegerValue(n) == [type |-> "integer", n |-> n, s |-> <<>>]
NumberValue(n) == [type |-> "number", n |-> n, s |-> <<>>]
StringValue(chars) == [type |-> "string", n |-> 0, s |-> chars]
NullValue == [type |-> "null", n |-> 0, s |-> <<>>]

\* A subschema of "properties": its type and the keywords it carries
\* (format "" when it has none).
Property(type, has_minimum, minimum, has_minLength, minLength, format) ==
    [type |-> type, has_minimum |-> has_minimum, minimum |-> minimum,
     has_minLength |-> has_minLength, minLength |-> minLength, format |-> format]

\* Mutant of JSONPLACEHOLDER_POST_SCHEMA: undeclared fields are let through.
JSONPLACEHOLDER_POST_SCHEMA_open ==
    [type |-> "object",
     properties |->
        [f \in {"userId", "id", "title", "body"} |->
            IF f \in {"userId", "id"}
            THEN Property("integer", TRUE, 1, FALSE, 0, "")
            ELSE Property("string", FALSE, 0, TRUE, 1, "")],
     required |-> {"userId", "id", "title", "body"},
     additionalProperties |-> TRUE]

\* config.py lines 114-124
JSONPLACEHOLDER_POST_SCHEMA ==
    [type |-> "object",
     properties |->
        [f \in {"userId", "id", "title", "body"} |->
            IF f \in {"userId", "id"}
            THEN Property("integer", TRUE, 1, FALSE, 0, "")
            ELSE Property("string", FALSE, 0, TRUE, 1, "")],
     required |-> {"userId", "id", "title", "body"},
     additionalProperties |-> FALSE]

\* config.py lines 127-138
REQRES_USER_SCHEMA ==
    [type |-> "object",
     properties |->
        [f \in {"id", "email", "first_name", "last_name", "avatar"} |->
            CASE f = "id" -> Property("integer", FALSE, 0, FALSE, 0, "")
              [] f = "email" -> Property("string", FALSE, 0, FALSE, 0, "email")
              [] f = "avatar" -> Property("string", FALSE, 0, FALSE, 0, "uri")
              [] OTHER -> Property("string", FALSE, 0, FALSE, 0, "")],
     required |-> {"id", "email", "first_name", "last_name"},
     additionalProperties |-> TRUE]

SchemaNames == {"JSONPLACEHOLDER_POST_SCHEMA", "REQRES_USER_SCHEMA"}
SchemaOf(name) ==
    IF name = "JSONPLACEHOLDER_POST_SCHEMA" THEN JSONPLACEHOLDER_POST_SCHEMA
    ELSE REQRES_USER_SCHEMA

\* The character occurs in the string.
Contains(chars, c) == \E k \in 1..Len(chars) : chars[k] = c

\* What a format checker would ask of a string: an "@" for email, a scheme
\* and its colon for uri.
conforms(format, chars) ==
    CASE format = "email" -> Contains(chars, "@")
      [] format = "uri" -> Len(chars) >= 2 /\ chars[1] # ":" /\ Contains(chars, ":")
      [] OTHER -> TRUE

\* line 165: validate(instance=data, schema=schema) passes no format_checker,
\* and without one the validator does not evaluate "format".
format_checker == None

\* The keywords of a property's subschema that the value violates. type
\* "integer" excludes booleans and non-integral numbers; minimum applies to
\* numbers only and minLength to strings only.
property_errors(value, sub) ==
    {kw \in {"type", "minimum", "minLength", "format"} :
        CASE kw = "type" -> value.type # sub.type
          [] kw = "minimum" ->
                /\ sub.has_minimum
                /\ value.type \in {"integer", "number"}
                /\ value.n < sub.minimum
          [] kw = "minLength" ->
                /\ sub.has_minLength
                /\ value.type = "string"
                /\ Len(value.s) < sub.minLength
          [] kw = "format" ->
                /\ sub.format # ""
                /\ format_checker # None
                /\ value.type = "string"
                /\ ~conforms(sub.format, value.s)}

\* Every violation of the schema by an object: <<keyword, field>>.
iter_errors(data, schema) ==
    {<<"required", f>> : f \in schema.required \ DOMAIN data}
    \cup {<<"additionalProperties", f>> :
            f \in {g \in DOMAIN data \ DOMAIN schema.properties :
                      ~schema.additionalProperties}}
    \cup UNION {{<<kw, f>> : kw \in property_errors(data[f], schema.properties[f])} :
                  f \in DOMAIN data \cap DOMAIN schema.properties}

\* Mutant of on_validation_error: the error is logged and not raised again.
on_validation_error_swallow(errors) == "returned"

\* lines 167-169: except ValidationError: print, raise.
on_validation_error(errors) == "ValidationError"

\* lines 164-169: how the call ends, "returned" or the exception it raises.
validate_json_schema(data, schema) ==
    LET errors == iter_errors(data, schema)
    IN  IF errors = {} THEN "returned" ELSE on_validation_error(errors)

\* The documents handed to the call: objects over the declared fields and
\* one undeclared field.
PostFields == {"userId", "id", "title", "body", "extra"}
PostValues ==
    {IntegerValue(n) : n \in 0..MaxInt}
    \cup {NumberValue(1), StringValue(<<>>), StringValue(<<"x">>), NullValue}
UserFields == {"id", "email", "first_name", "last_name", "avatar", "extra"}
UserValues ==
    {IntegerValue(1), StringValue(<<"x">>), StringValue(<<"a", "@", "b">>),
     StringValue(<<"h", ":", "x">>)}
Documents(fields, values) == UNION {[S -> values] : S \in SUBSET fields}

NoVal ==
    [state |-> "idle", schema |-> "JSONPLACEHOLDER_POST_SCHEMA", data |-> <<>>,
     errors |-> {}, exc |-> "none"]

\* --------------------------------------- WebDriverManager, run_all_web_tests

\* run_all_web_tests lines 976-985
web_test_functions ==
    <<"test_authentication", "test_dynamic_loading", "test_complex_forms",
      "test_drag_and_drop", "test_file_operations", "test_hover_interactions",
      "test_javascript_alerts", "test_multiple_windows">>

\* A test that used no driver, or has not run.
NoWebTest == [driver |-> 0, outcome |-> "none"]

\* _driver = 0 is None; a driver's identity is its number among those made.
\* live: the drivers made on which quit() has not been called.
NoWeb ==
    [state |-> "idle", _driver |-> 0, made |-> 0, live |-> {}, quit_raised |-> {},
     i |-> 0, successful_tests |-> 0, failed_tests |-> 0,
     prev |-> NoWebTest, last |-> NoWebTest]

\* Mutant of get_driver_creates: the test of _driver is dropped, every call
\* starts a browser.
get_driver_creates_always(w) == TRUE

\* get_driver line 69: if self._driver is None
get_driver_creates(w) == w._driver = 0

\* get_driver lines 64-71; `created` tells whether _create_driver returns a
\* driver or raises (lines 125-138), in which case _driver stays None and the
\* exception leaves get_driver.
get_driver(w, created) ==
    IF get_driver_creates(w)
    THEN IF created
         THEN [w EXCEPT !._driver = w.made + 1, !.made = @ + 1,
                        !.live = @ \cup {w.made + 1}]
         ELSE w
    ELSE w

\* Mutant of driver_after_quit: the reference is reset after quit() inside
\* the try block, not in a finally clause.
driver_after_quit_no_finally(d, raises) == IF raises THEN d ELSE 0

\* quit_driver lines 155-156: finally: self._driver = None
driver_after_quit(d, raises) == 0

\* quit_driver lines 146-156: nothing to do without a driver; otherwise quit()
\* is called, its Exception is printed, the reference is reset.
quit_driver(w, raises) ==
    IF w._driver = 0 THEN w
    ELSE [w EXCEPT !._driver = driver_after_quit(w._driver, raises),
                   !.live = @ \ {w._driver},
                   !.quit_raised = IF raises THEN @ \cup {w._driver} ELSE @]

\* One test function (for instance test_authentication, lines 221-273):
\* get_driver before the try block; the body; quit_driver as the last
\* statement of the try block; except Exception: print, raise, which leaves
\* the driver open.
\*   created  _create_driver returns a driver
\*   passes   no statement of the body raises
\*   raises   quit() raises
web_test(w, created, passes, raises) ==
    LET g == get_driver(w, created)
        got == IF get_driver_creates(w) /\ ~created THEN 0 ELSE g._driver
        done == IF got = 0 THEN [g EXCEPT !.last = [driver |-> 0, outcome |-> "raised"]]
                ELSE IF passes
                THEN [quit_driver(g, raises) EXCEPT
                        !.last = [driver |-> got, outcome |-> "returned"]]
                ELSE [g EXCEPT !.last = [driver |-> got, outcome |-> "raised"]]
    IN  [done EXCEPT !.prev = w.last]

RegistryInit ==
    /\ _instance = FALSE
    /\ _sessions = <<>>
    /\ heap = <<>>
    /\ ret = 0
    /\ closeRec = NoClose
    /\ returned = [n \in ApiNames |-> <<>>]
    /\ constructed = [n \in ApiNames |-> 0]
    /\ closeCalls = 0
    /\ mgr = [objects |-> 0, handles |-> {}]
    /\ asked = "none"

\* ---- SpecRegistry: any sequence of registry operations

InitRegistry ==
    /\ RegistryInit
    /\ req = NoReq
    /\ pc = "registry"
    /\ proc = <<>>
    /\ probe = NoProbe
    /\ val = NoVal
    /\ web = NoWeb

RegGetSession ==
    \E api_name \in ApiNames, headers \in HeaderArgs :
        /\ get_session_creates(_sessions, api_name) => Len(heap) < MaxSessions
        /\ Len(returned[api_name]) < MaxGets
        /\ _instance
        /\ get_session(api_name, headers)
        /\ UNCHANGED <<_instance, mgr, req, pc, proc, probe, val, web>>

RegCloseAll ==
    \E fails \in SUBSET (1..Len(_sessions)) :
        /\ closeCalls < MaxCloses
        /\ _instance
        /\ close_all_sessions(fails)
        /\ UNCHANGED <<_instance, mgr, req, pc, proc, probe, val, web>>

RegNew == HTTPSessionManager_new /\ UNCHANGED <<req, pc, proc, probe, val, web>>

NextRegistry == RegNew \/ RegGetSession \/ RegCloseAll

SpecRegistry == InitRegistry /\ [][NextRegistry]_vars

\* ---- SpecRequest: calls of make_api_request, one after another

InitRequest ==
    /\ RegistryInit
    /\ req = NoReq
    /\ pc = "request"
    /\ proc = <<>>
    /\ probe = NoProbe
    /\ val = NoVal
    /\ web = NoWeb

ReqCall ==
    \E method \in Methods, session \in 0..Len(heap), kwargs \in KwargsSet :
        /\ req.state \in {"idle", "asserted", "assert_failed", "raised"}
        /\ session = 0 => Len(returned["default"]) < MaxGets
        /\ make_api_request(method, session, kwargs)
        /\ UNCHANGED <<pc, proc, probe, val, web>>

ReqAttempt ==
    \E result \in AttemptResults :
        /\ session_request_attempt(result)
        /\ UNCHANGED <<pc, proc, probe, val, web>>

ReqAssert ==
    \E expected_codes \in ExpectedCodes :
        /\ assert_status_code_in_range(expected_codes)
        /\ UNCHANGED <<pc, proc, probe, val, web>>

NextRequest == ReqCall \/ ReqAttempt \/ ReqAssert

SpecRequest == InitRequest /\ [][NextRequest]_vars

\* ---- SpecProbe: one run of _test_reqres_rate_limiting

InitProbe ==
    /\ RegistryInit
    /\ req = NoReq
    /\ pc = "probe"
    /\ proc = <<>>
    /\ probe = NoProbe
    /\ val = NoVal
    /\ web = NoWeb

\* lines 548-554: the counters start at 0.
ProbeStart ==
    /\ probe.state = "idle"
    /\ probe' = [NoProbe EXCEPT !.state = "loop"]
    /\ UNCHANGED <<regVars, req, pc, proc, val, web>>

ProbeIteration ==
    \E outcome \in ProbeOutcomes :
        /\ probe.state = "loop"
        /\ ~loop_done(probe)
        /\ probe' = probe_iteration(probe, outcome)
        /\ UNCHANGED <<regVars, req, pc, proc, val, web>>

\* line 582: the counts are printed and the probe returns.
ProbeReturn ==
    /\ probe.state = "loop"
    /\ loop_done(probe)
    /\ probe' = [probe EXCEPT !.state = "done"]
    /\ UNCHANGED <<regVars, req, pc, proc, val, web>>

NextProbe == ProbeStart \/ ProbeIteration \/ ProbeReturn

\* The single thread keeps running: every call is bounded by its timeout and
\* every sleep ends.
SpecProbe == InitProbe /\ [][NextProbe]_vars /\ WF_vars(NextProbe)

\* ---- SpecSchema: one validate_json_schema call on any document

InitSchema ==
    /\ RegistryInit
    /\ req = NoReq
    /\ pc = "schema"
    /\ proc = <<>>
    /\ probe = NoProbe
    /\ web = NoWeb
    /\ \E name \in SchemaNames :
         \E data \in IF name = "JSONPLACEHOLDER_POST_SCHEMA"
                     THEN Documents(PostFields, PostValues)
                     ELSE Documents(UserFields, UserValues) :
            val = [NoVal EXCEPT !.schema = name, !.data = data]

ValidateJsonSchema ==
    /\ val.state = "idle"
    /\ LET result == validate_json_schema(val.data, SchemaOf(val.schema))
       IN  val' = [val EXCEPT
                     !.state = IF result = "returned" THEN "returned" ELSE "raised",
                     !.errors = iter_errors(val.data, SchemaOf(val.schema)),
                     !.exc = IF result = "returned" THEN "none" ELSE result]
    /\ UNCHANGED <<regVars, req, pc, proc, probe, web>>

NextSchema == ValidateJsonSchema

SpecSchema == InitSchema /\ [][NextSchema]_vars

\* --------------------------------------------------------- schema claims

Validated(name) == val.state # "idle" /\ val.schema = name

\* The value is an integer of at least 1.
IsPositiveInteger(v) == v.type = "integer" /\ v.n >= 1
\* The value is a string of at least one character.
IsNonEmptyString(v) == v.type = "string" /\ v.s # <<>>

\* C15: validation against the posts schema returns exactly when the document
\* has the four fields userId, id, title, body and no other, userId and id
\* are integers >= 1 and title and body are non-empty strings; every other
\* document raises ValidationError.
C15_PostsSchemaAcceptsExactly ==
    Validated("JSONPLACEHOLDER_POST_SCHEMA") =>
        LET d == val.data
            good == /\ DOMAIN d = {"userId", "id", "title", "body"}
                    /\ IsPositiveInteger(d["userId"])
                    /\ IsPositiveInteger(d["id"])
                    /\ IsNonEmptyString(d["title"])
                    /\ IsNonEmptyString(d["body"])
        IN  /\ good => val.state = "returned" /\ val.exc = "none"
            /\ ~good => val.state = "raised" /\ val.exc = "ValidationError"

\* C15 witness: a document that is right in its four fields and carries one
\* more was rejected for that field alone.
C15_Witness ==
    /\ Validated("JSONPLACEHOLDER_POST_SCHEMA")
    /\ val.state = "raised"
    /\ val.errors = {<<"additionalProperties", "extra">>}

\* C16 (as stated): a user document with the required fields of the right
\* types whose email is not email-formatted, or whose avatar is not a URI,
\* raises ValidationError; undeclared fields alone never make one fail.
C16_FormatsEnforced ==
    Validated("REQRES_USER_SCHEMA") =>
        LET d == val.data
            typed == /\ {"id", "email", "first_name", "last_name"} \subseteq DOMAIN d
                     /\ d["id"].type = "integer"
                     /\ \A f \in DOMAIN d \ {"id", "extra"} : d[f].type = "string"
            bad_email == ~Contains(d["email"].s, "@")
            bad_avatar == "avatar" \in DOMAIN d /\ ~conforms("uri", d["avatar"].s)
        IN  typed =>
              /\ (bad_email \/ bad_avatar) => val.state = "raised"
              /\ ~(bad_email \/ bad_avatar) => val.state = "returned"

\* ---- SpecWeb: one run of run_all_web_tests

InitWeb ==
    /\ RegistryInit
    /\ req = NoReq
    /\ pc = "web"
    /\ proc = <<>>
    /\ probe = NoProbe
    /\ val = NoVal
    /\ web = NoWeb

\* lines 972-988: the handle, the list, the counters.
WebEnter ==
    /\ web.state = "idle"
    /\ web' = [web EXCEPT !.state = "loop", !.i = 1]
    /\ UNCHANGED <<regVars, req, pc, proc, probe, val>>

\* lines 990-997: one test of the list; its Exception is counted and the loop
\* goes on.
WebTest ==
    \E created \in BOOLEAN, passes \in BOOLEAN, raises \in BOOLEAN :
        /\ web.state = "loop"
        /\ web.i <= Len(web_test_functions)
        /\ LET w == web_test(web, created, passes, raises)
           IN  web' = [w EXCEPT
                         !.i = @ + 1,
                         !.successful_tests = IF w.last.outcome = "returned" THEN @ + 1 ELSE @,
                         !.failed_tests = IF w.last.outcome = "raised" THEN @ + 1 ELSE @]
        /\ UNCHANGED <<regVars, req, pc, proc, probe, val>>

\* lines 999-1004: the final report.
WebReport ==
    /\ web.state = "loop"
    /\ web.i > Len(web_test_functions)
    /\ web' = [web EXCEPT !.state = "finally"]
    /\ UNCHANGED <<regVars, req, pc, proc, probe, val>>

\* lines 1009-1013: the finally clause, then the function returns.
WebFinally ==
    \E raises \in BOOLEAN :
        /\ web.state = "finally"
        /\ web' = [quit_driver(web, raises) EXCEPT !.state = "returned"]
        /\ UNCHANGED <<regVars, req, pc, proc, probe, val>>

NextWeb == WebEnter \/ WebTest \/ WebReport \/ WebFinally

SpecWeb == InitWeb /\ [][NextWeb]_vars

\* ------------------------------------------------------------- web claims

Iterated == probe.i >= 1 /\ probe.state \in {"loop", "done", "raised"}

\* C11: the probe ends, and when it has ended it has issued exactly
\* max_requests requests, one per iteration, whatever the responses and
\* exceptions were; it never issues more.
C11_FullBudgetThenEnds ==
    /\ <>(probe.state = "done")
    /\ [](probe.issued <= MaxRequests /\ probe.issued = probe.i)
    /\ [](probe.state = "done" => probe.issued = MaxRequests)

\* C11 witness: the probe has ended after an iteration budget in which every
\* response was rate-limited.
C11_Witness ==
    /\ probe.state = "done"
    /\ probe.rate_limited_requests = MaxRequests

\* C12: after a 429 response with Retry-After: N (N a number of seconds), the
\* one sleep of the iteration is the wait of N seconds.
C12_WaitIsRetryAfter ==
    (/\ Iterated
     /\ probe.last.status = 429
     /\ probe.last.retry_after \in {Header(<<"0">>), Header(<<"3">>), Header(<<"1", "2">>)})
    => probe.slept =
         <<SleepWait(CASE probe.last.retry_after = Header(<<"0">>) -> 0
                       [] probe.last.retry_after = Header(<<"3">>) -> 3
                       [] probe.last.retry_after = Header(<<"1", "2">>) -> 12)>>

\* C12 witness: a 429 with Retry-After: 12 was followed by a wait of 12 s.
C12_Witness ==
    /\ Iterated
    /\ probe.last.status = 429
    /\ probe.last.retry_after = Header(<<"1", "2">>)
    /\ probe.slept = <<SleepWait(12)>>

\* C13: after a 429 response without a Retry-After header, the one sleep of
\* the iteration is the fallback wait of 5 seconds.
C13_WaitIsFallback ==
    (Iterated /\ probe.last.status = 429 /\ ~probe.last.retry_after.present)
    => probe.slept = <<SleepWait(5)>>

\* C13 witness: a 429 without the header was followed by a wait of 5 s.
C13_Witness ==
    /\ Iterated
    /\ probe.last.status = 429
    /\ probe.last.retry_after = NoHeader
    /\ probe.slept = <<SleepWait(5)>>

\* C14: no response status and no exception of an iteration leaves the probe:
\* the exception is caught, the iteration counts as run, the loop goes on and
\* the probe returns with every iteration run.
C14_ProbeNeverFatal ==
    /\ probe.state # "raised"
    /\ probe.raised = "none"
    /\ (Iterated /\ probe.last.kind = "exception") =>
          /\ probe.caught = probe.last.exc
          /\ probe.successful_requests = probe.prev_successful
          /\ probe.rate_limited_requests = probe.prev_rate_limited
    /\ probe.state = "done" => probe.i = MaxRequests

\* C14 witness: the probe returned although its last request raised and an
\* earlier response was a 429.
C14_Witness ==
    /\ probe.state = "done"
    /\ probe.last.kind = "exception"
    /\ probe.caught = "ConnectionError"
    /\ probe.rate_limited_requests >= 1

\* C19 (as stated): delay_between_requests is slept after every iteration,
\* whatever its outcome, also after a 429 and after an exception.
C19_DelayAfterEveryIteration ==
    Iterated => \E k \in 1..Len(probe.slept) : probe.slept[k] = SleepDelay

\* C20 (as stated): every iteration whose response status is in 200..299
\* increments the success counter by exactly one.
C20_Every2xxCounts ==
    (/\ Iterated
     /\ probe.last.kind = "response"
     /\ probe.last.status >= 200 /\ probe.last.status <= 299)
    => probe.successful_requests = probe.prev_successful + 1

\* C20 (amended): an iteration increments the success counter by exactly one
\* when its response status is 200, and leaves it unchanged otherwise, other
\* statuses of the 200 range included.
C20_Only200Counts ==
    Iterated =>
        IF probe.last.kind = "response" /\ probe.last.status = 200
        THEN probe.successful_requests = probe.prev_successful + 1
        ELSE probe.successful_requests = probe.prev_successful

\* C20 witness: a 200 was counted after a 204 had not been.
C20_Witness ==
    /\ Iterated
    /\ probe.i >= 2
    /\ probe.last.status = 200
    /\ probe.successful_requests = 1
    /\ probe.prev_successful = 0

\* The step is one iteration of the probe's loop.
IterationStep ==
    /\ probe.state = "loop"
    /\ probe'.state \in {"loop", "raised"}
    /\ probe' # probe

\* C21: an iteration whose request returns status 429 increments the
\* rate-limited counter by exactly one, leaves the success counter unchanged
\* and uses up one iteration slot with one request issued in it.
C21_RateLimitedCountsOnce ==
    [][(IterationStep /\ probe'.last.kind = "response" /\ probe'.last.status = 429) =>
          /\ probe'.rate_limited_requests = probe.rate_limited_requests + 1
          /\ probe'.successful_requests = probe.successful_requests
          /\ probe'.i = probe.i + 1
          /\ probe'.issued = probe.issued + 1]_vars

\* C21 witness: the second iteration got a 429 after a counted 200.
C21_Witness ==
    /\ Iterated
    /\ probe.i = 2
    /\ probe.issued = 2
    /\ probe.last.status = 429
    /\ probe.successful_requests = 1
    /\ probe.rate_limited_requests = 1

\* C28: after a 429 response whose Retry-After is no integer (an HTTP date),
\* the iteration is counted as rate-limited, nothing is slept for it, neither
\* the wait nor the delay between requests, the ValueError is caught and the
\* probe goes on.
C28_UnparseableRetryAfter ==
    (/\ Iterated
     /\ probe.last.status = 429
     /\ probe.last.retry_after = Header(<<"W", "e", "d">>))
    => /\ probe.rate_limited_requests = probe.prev_rate_limited + 1
       /\ probe.successful_requests = probe.prev_successful
       /\ probe.slept = <<>>
       /\ probe.caught = "ValueError"
       /\ probe.state \in {"loop", "done"}
       /\ probe.raised = "none"

\* C28 witness: the probe returned although its first 429 carried a date and
\* a later iteration still ran.
C28_Witness ==
    /\ probe.state = "done"
    /\ probe.last.status = 429
    /\ probe.last.retry_after = Header(<<"W", "e", "d">>)
    /\ probe.rate_limited_requests = MaxRequests
    /\ probe.caught = "ValueError"

\* C29: at every point of the probe the two counters together are at most the
\* iterations started, which are at most max_requests; in an iteration each
\* counter stays or grows by one, and at most one of them changes.
C29_CounterInvariants ==
    /\ probe.successful_requests + probe.rate_limited_requests <= probe.i
    /\ probe.i <= MaxRequests
    /\ probe.successful_requests \in {probe.prev_successful, probe.prev_successful + 1}
    /\ probe.rate_limited_requests \in {probe.prev_rate_limited, probe.prev_rate_limited + 1}
    /\ ~(/\ probe.successful_requests # probe.prev_successful
         /\ probe.rate_limited_requests # probe.prev_rate_limited)

\* C29 witness: the probe returned with both counters above 0 and an
\* iteration that changed neither.
C29_Witness ==
    /\ probe.state = "done"
    /\ probe.successful_requests >= 1
    /\ probe.rate_limited_requests >= 1
    /\ probe.successful_requests + probe.rate_limited_requests < probe.i

\* -------------------------------------------------------- request claims

\* The call has delivered its outcome to the caller.
Finished == req.state \in {"returned", "raised", "asserted", "assert_failed"}

\* The attempt result is one the adapter retries for this call's method.
Retried(result) ==
    \/ result.kind = "fault"
    \/ /\ req.method \in {"HEAD", "GET", "POST", "PUT", "DELETE"}
       /\ result.status \in {429, 500, 502, 503, 504}

\* C7 (as stated): every call handed to session.request carries a bounded
\* (connect, read) timeout: the default pair (5, 30) when the caller gave none,
\* the caller's value unchanged otherwise, and never no bound at all.
C7_EveryCallBounded ==
    req.state # "idle" =>
        /\ HasKey(req.sent, "timeout")
        /\ ~HasKey(req.kwargs, "timeout") => ValueOf(req.sent, "timeout") = <<5, 30>>
        /\ HasKey(req.kwargs, "timeout") =>
              ValueOf(req.sent, "timeout") = ValueOf(req.kwargs, "timeout")
        /\ ValueOf(req.sent, "timeout") # None
        /\ Len(ValueOf(req.sent, "timeout")) = 2

\* C8: a call delivers nothing while in flight and exactly one outcome when it
\* ends: a response, logged with REQUEST, which is the response of the last
\* attempt, or a RequestException, logged with ERROR and raised. When the
\* retries are used up and the last attempt failed too, the outcome is the
\* exception, never a response or a silent return.
C8_OneTerminalOutcome ==
    /\ req.state = "in_flight" => req.outcomes = 0
    /\ Finished =>
          /\ req.outcomes = 1
          /\ Len(req.attempts) >= 1
          /\ \/ /\ req.state \in {"returned", "asserted", "assert_failed"}
                /\ req.out = "REQUEST"
                /\ req.attempts[Len(req.attempts)].kind = "response"
                /\ req.status = req.attempts[Len(req.attempts)].status
                /\ ~Retried(req.attempts[Len(req.attempts)])
             \/ /\ req.state = "raised"
                /\ req.out = "ERROR"
                /\ req.exc \in {"RetryError", "ConnectionError"}
                /\ Len(req.attempts) = RATE_LIMIT_CONFIG_retry_attempts + 1
                /\ \A i \in 1..Len(req.attempts) : Retried(req.attempts[i])

\* C8 witness: every attempt hit a connection fault and the ConnectionError
\* reached the caller.
C8_Witness ==
    /\ req.state = "raised"
    /\ req.exc = "ConnectionError"
    /\ \A i \in 1..Len(req.attempts) : req.attempts[i].kind = "fault"

\* Every attempt of the call got a response with a status of the retryable
\* set, for a method the adapter retries.
AllRetryableResponses ==
    /\ req.method \in {"HEAD", "GET", "POST", "PUT", "DELETE"}
    /\ Len(req.attempts) >= 1
    /\ \A i \in 1..Len(req.attempts) :
          /\ req.attempts[i].kind = "response"
          /\ req.attempts[i].status \in {429, 500, 502, 503, 504}

\* C9 (as stated): when every response has a retryable status, the request is
\* attempted at least twice and at most retry_attempts = 3 times before the
\* failure is surfaced.
C9_AtMostRetryAttempts ==
    (Finished /\ AllRetryableResponses) =>
        /\ req.state = "raised"
        /\ Len(req.attempts) >= 2
        /\ Len(req.attempts) <= RATE_LIMIT_CONFIG_retry_attempts

\* C9 (amended): when every response has a retryable status, the request is
\* attempted exactly retry_attempts + 1 = 4 times, the first attempt and 3
\* retries, and then the failure (RetryError) is surfaced; it is never
\* surfaced earlier and no fifth attempt is made.
C9_FirstAttemptPlusRetries ==
    /\ Len(req.attempts) <= RATE_LIMIT_CONFIG_retry_attempts + 1
    /\ (Finished /\ AllRetryableResponses) =>
          /\ req.state = "raised"
          /\ req.exc = "RetryError"
          /\ Len(req.attempts) >= 2
          /\ Len(req.attempts) = RATE_LIMIT_CONFIG_retry_attempts + 1

\* C9 witness: a GET answered 429, 503, 500, 503 ended in RetryError.
C9_Witness ==
    /\ Finished
    /\ AllRetryableResponses
    /\ req.exc = "RetryError"
    /\ \E i, j \in 1..Len(req.attempts) :
          req.attempts[i].status = 429 /\ req.attempts[j].status = 503

\* C10: a response whose status is outside the retryable set ends the call: no
\* attempt follows it, so a request answered that way at once is attempted
\* exactly once and the response is returned; assert_status_code_in_range then
\* raises AssertionError exactly when the status is not among the expected
\* codes, with no further attempt.
C10_NonRetryableNotRetried ==
    /\ \A i \in 1..Len(req.attempts) :
          (/\ req.attempts[i].kind = "response"
           /\ req.attempts[i].status \notin {429, 500, 502, 503, 504})
          => /\ i = Len(req.attempts)
             /\ req.state \in {"returned", "asserted", "assert_failed"}
             /\ req.status = req.attempts[i].status
    /\ req.state = "asserted" => req.status \in req.expected
    /\ req.state = "assert_failed" =>
          req.status \notin req.expected /\ req.exc = "AssertionError"

\* C10 witness: a GET answered 404 at once, where 200 was expected.
C10_Witness ==
    /\ req.state = "assert_failed"
    /\ req.method = "GET"
    /\ req.attempts = <<[kind |-> "response", status |-> 404]>>
    /\ req.expected = {200}

\* ------------------------------------------------------- registry claims

\* C1 (as stated): for every name, in any sequence of registry operations, at
\* most one Session is ever constructed during the process lifetime.
C1_OneSessionPerLifetime ==
    \A n \in ApiNames : constructed[n] <= 1

\* C1 (amended): between two close_all_sessions calls every get_session(name)
\* returns the identical Session; the registry holds at most one Session per
\* name, and a name gets a new Session only after a close_all_sessions, so at
\* most one more than the number of close_all_sessions calls so far.
C1_OneSessionBetweenCloses ==
    \A n \in ApiNames :
        /\ \A i, j \in 1..Len(returned[n]) : returned[n][i] = returned[n][j]
        /\ Cardinality({k \in 1..Len(_sessions) : _sessions[k].name = n}) <= 1
        /\ constructed[n] <= closeCalls + 1

\* C1 witness: a name was asked for twice since the last close and had been
\* constructed before that close as well.
C1_Witness ==
    \E n \in ApiNames :
        /\ Len(returned[n]) >= 2
        /\ constructed[n] = 2
        /\ closeCalls >= 1

\* C6: close_all_sessions calls close() on every Session the registry held; a
\* close that raises is logged (one ADVERTENCIA line per failing Session),
\* nothing is raised to the caller, and every Session whose close did not raise
\* is closed, whatever failed before it.
C6_CloseAllBestEffort ==
    closeCalls > 0 =>
        /\ closeRec.tried = closeRec.held
        /\ ~closeRec.raised
        /\ Cardinality(closeRec.advertencia) = Cardinality(closeRec.failed)
        /\ Cardinality(closeRec.exitoso) = Cardinality(closeRec.held \ closeRec.failed)
        /\ \A i \in closeRec.held \ closeRec.failed : heap[i].closed

\* C6 witness: the close of an earlier Session raised and a later Session of
\* the same call was closed.
C6_Witness ==
    /\ closeCalls > 0
    /\ \E i \in closeRec.failed, j \in closeRec.held \ closeRec.failed :
          i < j /\ heap[j].closed

\* The step is a get_session call for the name.
GetStep(n) == Len(returned'[n]) = Len(returned[n]) + 1

\* C25: when close_all_sessions returns the registry holds no Session,
\* whether or not a close raised; the Sessions it holds later were all made
\* after that call, none of them is closed, and a get_session for a name
\* without a Session returns one that did not exist before.
C25_EmptyAfterCloseThenFresh ==
    /\ [](closeCalls > 0 =>
            \A k \in 1..Len(_sessions) :
                /\ _sessions[k].session \notin closeRec.held
                /\ ~heap[_sessions[k].session].closed)
    /\ [][/\ closeCalls' = closeCalls + 1 => _sessions' = <<>>
          /\ \A n \in ApiNames :
                (GetStep(n) /\ ~HasSession(_sessions, n)) =>
                    /\ ret' = Len(heap) + 1
                    /\ Len(heap') = Len(heap) + 1
                    /\ ~heap'[ret'].closed]_vars

\* C25 witness: after a close_all_sessions in which a close raised, a name
\* that had a Session before was asked for again and got its second Session.
C25_Witness ==
    /\ closeCalls >= 1
    /\ closeRec.failed # {}
    /\ \E n \in ApiNames :
          /\ HasSession(_sessions, n)
          /\ constructed[n] = 2
          /\ ret = SessionOf(_sessions, n)
          /\ ret \notin closeRec.held

\* C27: a get_session for a name that has a Session changes neither that
\* Session nor the registry, whatever the headers argument is, and returns
\* that Session: its headers stay those of the call that created it.
C27_SecondGetIgnoresHeaders ==
    [][\A n \in ApiNames :
          (GetStep(n) /\ HasSession(_sessions, n)) =>
              /\ heap' = heap
              /\ _sessions' = _sessions
              /\ ret' = SessionOf(_sessions, n)]_vars

\* C27 witness: the reqres Session, created with REQRES_HEADERS, was asked for
\* again without headers and still carries REQRES_HEADERS.
C27_Witness ==
    /\ HasSession(_sessions, "reqres")
    /\ Len(returned["reqres"]) >= 2
    /\ ret = SessionOf(_sessions, "reqres")
    /\ asked = "None"
    /\ heap[ret].headers = "REQRES_HEADERS"

\* ---------------------------------------------- the process of test_runner.py

\* run_all_api_tests lines 600-603
test_functions == <<"test_jsonplaceholder_api", "test_reqres_api">>

\* Mutant of ScenarioSteps: the posts are validated before the CRUD flow.
ScenarioSteps_validate_first(test_func) ==
    IF test_func = "test_jsonplaceholder_api"
    THEN <<"_get_jsonplaceholder_data posts", "_get_jsonplaceholder_data comments",
           "_get_jsonplaceholder_data users", "_validate_jsonplaceholder_schemas",
           "_test_jsonplaceholder_crud", "_test_jsonplaceholder_relationships",
           "_test_jsonplaceholder_negative_cases">>
    ELSE <<"_test_reqres_users", "_test_reqres_authentication",
           "_test_reqres_rate_limiting">>

\* The calls inside the try block of each scenario, in the order of the code
\* (test_jsonplaceholder_api lines 215-229, test_reqres_api lines 398-404).
ScenarioSteps(test_func) ==
    IF test_func = "test_jsonplaceholder_api"
    THEN <<"_get_jsonplaceholder_data posts", "_get_jsonplaceholder_data comments",
           "_get_jsonplaceholder_data users", "_test_jsonplaceholder_crud",
           "_validate_jsonplaceholder_schemas", "_test_jsonplaceholder_relationships",
           "_test_jsonplaceholder_negative_cases">>
    ELSE <<"_test_reqres_users", "_test_reqres_authentication",
           "_test_reqres_rate_limiting">>

\* The get_session call that opens each scenario (lines 211 and 394).
ScenarioApiName(test_func) ==
    IF test_func = "test_jsonplaceholder_api" THEN "jsonplaceholder" ELSE "reqres"
ScenarioHeaders(test_func) ==
    IF test_func = "test_jsonplaceholder_api" THEN "None" ELSE "REQRES_HEADERS"

\* What can raise inside each call, in the order of the code: a request
\* (make_api_request re-raises the RequestException, line 150), an assert
\* (assert_status_code_in_range line 193, or an assert statement), a validate
\* (validate_json_schema, once per document). _test_reqres_rate_limiting
\* catches every Exception of its loop (lines 578-580), so nothing in it does.
\*   docs  the documents the call validates
Validates(docs) == [k \in 1..Len(docs) |-> "validate"]
StepChecks(step, docs) ==
    CASE step = "_test_jsonplaceholder_crud" ->
            <<"assert", "request", "assert", "assert", "request", "assert",
              "request", "assert">>
      [] step = "_validate_jsonplaceholder_schemas" -> Validates(docs)
      [] step = "_test_jsonplaceholder_relationships" -> <<"assert", "assert">>
      [] step = "_test_jsonplaceholder_negative_cases" ->
            <<"request", "assert", "request", "assert", "request", "assert">>
      [] step = "_test_reqres_users" ->
            <<"request", "assert", "assert", "request", "assert", "assert",
              "request", "assert", "assert", "assert", "assert">>
            \o Validates(docs)
            \o <<"request", "assert", "request", "assert">>
      [] step = "_test_reqres_authentication" ->
            <<"request", "assert", "assert", "request", "assert", "assert",
              "request", "assert", "assert", "request", "assert", "assert">>
      [] step = "_test_reqres_rate_limiting" -> <<>>
      [] OTHER -> <<"request", "assert">>

\* The schema of the calls that validate (lines 323-327 and 455-456).
StepValidates(step) == step \in {"_validate_jsonplaceholder_schemas", "_test_reqres_users"}
StepSchema(step) ==
    IF step = "_test_reqres_users" THEN REQRES_USER_SCHEMA ELSE JSONPLACEHOLDER_POST_SCHEMA

\* Documents a server may return: one that conforms, one without a required
\* field, one with a field more (posts) or an email that is none (users).
ValidPost ==
    [f \in {"userId", "id", "title", "body"} |->
        IF f \in {"userId", "id"} THEN IntegerValue(1) ELSE StringValue(<<"x">>)]
PostSamples ==
    {ValidPost,
     [f \in {"userId", "id", "title"} |-> ValidPost[f]],
     [f \in {"userId", "id", "title", "body", "extra"} |->
        IF f = "extra" THEN NullValue ELSE ValidPost[f]]}
ValidUser ==
    [f \in {"id", "email", "first_name", "last_name", "avatar"} |->
        CASE f = "id" -> IntegerValue(1)
          [] f = "email" -> StringValue(<<"a", "@", "b">>)
          [] f = "avatar" -> StringValue(<<"h", ":", "x">>)
          [] OTHER -> StringValue(<<"x">>)]
UserSamples ==
    {ValidUser,
     [f \in {"id", "first_name", "last_name"} |-> ValidUser[f]],
     [ValidUser EXCEPT !["email"] = StringValue(<<"x">>)]}
DocLists(samples) == UNION {[1..n -> samples] : n \in 0..MaxDocs}
StepDocLists(step) ==
    CASE step = "_validate_jsonplaceholder_schemas" -> DocLists(PostSamples)
      [] step = "_test_reqres_users" -> DocLists(UserSamples)
      [] OTHER -> {<<>>}

\* The place of the first validate of a call among its checks, less one.
ValidateOffset(step) == IF step = "_test_reqres_users" THEN 11 ELSE 0

\* How one call of a scenario goes: the documents it validates, the request or
\* assert the environment makes fail (fails = 0: none), or the operator's
\* Ctrl+C raising KeyboardInterrupt in it.
StepRuns(step) ==
    UNION {{[interrupt |-> FALSE, docs |-> docs, fails |-> fails] :
                fails \in {0} \cup {k \in 1..Len(StepChecks(step, docs)) :
                                      StepChecks(step, docs)[k] # "validate"}} :
            docs \in StepDocLists(step)}
    \cup {[interrupt |-> TRUE, docs |-> <<>>, fails |-> 0]}

\* The check at which the call raises: the first of the failing request or
\* assert and the validates whose document validate_json_schema rejects;
\* 0 when the call returns.
step_end(step, docs, fails) ==
    LET checks == StepChecks(step, docs)
        ends == {k \in 1..Len(checks) :
                    \/ k = fails
                    \/ /\ checks[k] = "validate"
                       /\ validate_json_schema(docs[k - ValidateOffset(step)],
                                               StepSchema(step)) # "returned"}
    IN  IF ends = {} THEN 0 ELSE CHOOSE k \in ends : \A j \in ends : k <= j

\* The exception a check raises.
exception_of(check) ==
    CASE check = "request" -> "RequestException"
      [] check = "assert" -> "AssertionError"
      [] check = "validate" -> "ValidationError"

\* The documents validate_json_schema was called on when the call ended at
\* check `end` (0: it returned).
validated_until(step, docs, end) ==
    IF ~StepValidates(step) THEN <<>>
    ELSE IF end = 0 \/ end > ValidateOffset(step) + Len(docs) THEN docs
    ELSE IF end <= ValidateOffset(step) THEN <<>>
    ELSE SubSeq(docs, 1, end - ValidateOffset(step))

\* Mutant of acquired_session: the scenario makes a requests.Session of its
\* own, one more than the registry has made.
acquired_session_own(registry_session, made) == made + 1

\* lines 211 and 394: session = session_manager.get_session(...), the Session
\* the scenario hands to every request of its calls.
\*   made  the Sessions constructed so far
acquired_session(registry_session, made) == registry_session

\* The call has issued a request when it ended at check `end` (0: returned);
\* the probe issues its requests inside its loop (line 559).
issues_request(step, checks, end) ==
    \/ step = "_test_reqres_rate_limiting"
    \/ \E k \in 1..(IF end = 0 THEN Len(checks) ELSE end) : checks[k] = "request"

\* Mutant of run_all_api_tests_raises: a run with a failed scenario ends in an
\* exception.
run_all_api_tests_raises_when_failed(failed_tests) ==
    IF failed_tests > 0 THEN "Exception" ELSE "none"

\* run_all_api_tests lines 617-631: the report only prints, the outer except
\* clause and the finally clause raise nothing: the function returns.
run_all_api_tests_raises(failed_tests) == "none"

\* Mutant of scenario_except: the scenario logs the exception and returns.
scenario_except_swallow(e) == "returned"

\* test_jsonplaceholder_api lines 233-235 and test_reqres_api lines 408-410:
\* except Exception: print, raise. How the scenario then ends.
scenario_except(e) == "raised"

\* Mutant of api_unwind: the cleanup sits in the `except Exception` clause, so a
\* KeyboardInterrupt leaves run_all_api_tests without it.
api_unwind_no_finally(e) ==
    IF e = "KeyboardInterrupt" THEN "api_leave" ELSE "api_finally"

\* run_all_api_tests lines 598-631: where control goes when the try block is
\* left, normally (e = "none") or by an exception: the finally clause.
api_unwind(e) == "api_finally"

\* Mutant of after_raise: the try/except sits around the loop, the first
\* failing scenario ends it.
after_raise_abort(i) == Len(test_functions) + 1

\* run_all_api_tests lines 612-615: after a scenario raised, `continue` goes on
\* with the next place of the list.
after_raise(i) == i + 1

\* _execute_test_suite lines 101-127: True when test_function returned, False
\* when it raised an Exception; a KeyboardInterrupt is not caught here.
_execute_test_suite(raised) == raised = "none"

\* main lines 272-278 and __main__ lines 284-293: the exit code.
\*   success  what run_all_tests returned
main_exit_code(success) == IF success THEN 0 ELSE 1

NoProc ==
    [web_test_success |-> FALSE, api_test_success |-> FALSE,
     successful_tests |-> 0, failed_tests |-> 0,
     i |-> 0, step |-> 0,
     session |-> 0,           \* the scenario's local `session`
     used |-> {},             \* history: the Sessions requests were issued on
     calls |-> [name |-> "", steps |-> <<>>],  \* history: the calls the last
                              \* scenario started, in order
     checks_run |-> 0,        \* history: checks the current scenario ran
     validated |-> <<>>,      \* history: documents it validated
     ran |-> <<>>,            \* history: scenarios run and how each ended
     reported |-> <<>>,       \* the counts the final report printed
     pending |-> "none",      \* exception on its way up
     interrupted |-> "none",  \* history: where a KeyboardInterrupt was raised
     env_ok |-> FALSE,
     exit_code |-> 0 - 1]

Init ==
    /\ RegistryInit
    /\ req = NoReq
    /\ pc = "check_environment"
    /\ proc = NoProc
    /\ probe = NoProbe
    /\ val = NoVal
    /\ web = NoWeb

Exit(code) == pc' = "exited" /\ proc' = [proc EXCEPT !.exit_code = code]

\* main lines 260-263: check_environment() fails, sys.exit(1).
CheckEnvironment ==
    \E ok \in BOOLEAN :
        /\ pc = "check_environment"
        /\ IF ok
           THEN pc' = "main_sleep" /\ proc' = [proc EXCEPT !.env_ok = TRUE]
           ELSE Exit(1)
        /\ UNCHANGED <<regVars, req, probe, val, web>>

\* main line 266, time.sleep(3): a KeyboardInterrupt here reaches the handler
\* of __main__ (lines 287-289), sys.exit(130).
MainSleep ==
    \E e \in {"none", "KeyboardInterrupt"} :
        /\ pc = "main_sleep"
        /\ IF e = "none"
           THEN pc' = "web_suite" /\ UNCHANGED proc
           ELSE /\ pc' = "exited"
                /\ proc' = [proc EXCEPT !.interrupted = "main", !.exit_code = 130]
        /\ UNCHANGED <<regVars, req, probe, val, web>>

\* run_all_tests lines 75-86: KeyboardInterrupt caught, return False; main
\* then exits through sys.exit(1).
RunnerInterrupted(where) ==
    /\ pc' = "exited"
    /\ proc' = [proc EXCEPT !.interrupted = where, !.pending = "none",
                            !.exit_code = main_exit_code(FALSE)]

\* run_all_tests lines 59-62: the web suite. run_all_web_tests catches every
\* Exception of its tests and of quit_driver, so it returns or is interrupted.
WebSuite ==
    \E e \in {"none", "KeyboardInterrupt"} :
        /\ pc = "web_suite"
        /\ IF e = "none"
           THEN /\ pc' = "phase_sleep"
                /\ proc' = [proc EXCEPT !.web_test_success = _execute_test_suite("none")]
           ELSE RunnerInterrupted("web_suite")
        /\ UNCHANGED <<regVars, req, probe, val, web>>

\* run_all_tests line 66, time.sleep(2)
PhaseSleep ==
    \E e \in {"none", "KeyboardInterrupt"} :
        /\ pc = "phase_sleep"
        /\ IF e = "none"
           THEN pc' = "api_enter" /\ UNCHANGED proc
           ELSE RunnerInterrupted("phase_sleep")
        /\ UNCHANGED <<regVars, req, probe, val, web>>

\* run_all_api_tests lines 593-606: the handle, the list, the counters.
ApiEnter ==
    /\ pc = "api_enter"
    /\ HTTPSessionManager_new
    /\ pc' = "scenario"
    /\ proc' = [proc EXCEPT !.successful_tests = 0, !.failed_tests = 0, !.i = 1]
    /\ UNCHANGED <<req, probe, val, web>>

\* The loop of lines 608-615 is over when i is past the list.
LoopTarget(i) == IF i > Len(test_functions) THEN "api_report" ELSE "scenario"

\* test_func() starts (lines 210-211, 393-394): a handle and the scenario's
\* Session from the registry.
ScenarioStart ==
    /\ pc = "scenario"
    /\ HTTPSessionManager_handle
    /\ get_session(ScenarioApiName(test_functions[proc.i]),
                   ScenarioHeaders(test_functions[proc.i]))
    /\ pc' = "step"
    /\ proc' = [proc EXCEPT !.step = 1, !.checks_run = 0, !.validated = <<>>,
                            !.session = acquired_session(ret', Len(heap')),
                            !.calls = [name |-> test_functions[proc.i], steps |-> <<>>]]
    /\ UNCHANGED <<req, probe, val, web>>

\* What `ran` keeps of a scenario: how it ended, the exception, the call and
\* the check it ended at, the checks it ran and the documents it validated.
RanEntry(name, outcome, exc, step, check, checks_run, validated) ==
    [name |-> name, outcome |-> outcome, exc |-> exc, step |-> step,
     check |-> check, checks_run |-> checks_run, validated |-> validated]

\* One call of the scenario's try block. An Exception is logged and re-raised
\* by the scenario (lines 233-235, 408-410) and counted by the orchestrator
\* (lines 612-615); a return of the last call is counted at line 611; a
\* KeyboardInterrupt passes both `except Exception` clauses.
ScenarioStep ==
    /\ pc = "step"
    /\ \E run \in StepRuns(ScenarioSteps(test_functions[proc.i])[proc.step]) :
          LET test_func == test_functions[proc.i]
              steps == ScenarioSteps(test_func)
              step == steps[proc.step]
              end == step_end(step, run.docs, run.fails)
              checks == StepChecks(step, run.docs)
              validated == proc.validated \o validated_until(step, run.docs, end)
              calls == [proc.calls EXCEPT !.steps = Append(@, step)]
              used == IF issues_request(step, checks, end)
                      THEN proc.used \cup {proc.session} ELSE proc.used
              returned_entry ==
                  RanEntry(test_func, "returned", "none", proc.step, 0,
                           proc.checks_run + Len(checks), validated)
          IN  CASE run.interrupt ->
                      /\ pc' = api_unwind("KeyboardInterrupt")
                      /\ proc' = [proc EXCEPT
                            !.pending = "KeyboardInterrupt",
                            !.interrupted = "scenario",
                            !.calls = calls,
                            !.ran = Append(@, RanEntry(test_func, "interrupted",
                                        "KeyboardInterrupt", proc.step, 0,
                                        proc.checks_run, proc.validated))]
                 [] ~run.interrupt /\ end = 0 /\ proc.step < Len(steps) ->
                      /\ pc' = "step"
                      /\ proc' = [proc EXCEPT
                            !.step = @ + 1,
                            !.calls = calls,
                            !.used = used,
                            !.checks_run = @ + Len(checks),
                            !.validated = validated]
                 [] ~run.interrupt /\ end = 0 /\ proc.step = Len(steps) ->
                      /\ pc' = LoopTarget(proc.i + 1)
                      /\ proc' = [proc EXCEPT
                            !.successful_tests = @ + 1,
                            !.i = @ + 1,
                            !.calls = calls,
                            !.used = used,
                            !.ran = Append(@, returned_entry)]
                 [] ~run.interrupt /\ end > 0 ->
                      LET exc == exception_of(checks[end])
                          entry == RanEntry(test_func, scenario_except(exc), exc,
                                            proc.step, end, proc.checks_run + end,
                                            validated)
                      IN  IF entry.outcome = "raised"
                          THEN /\ pc' = LoopTarget(after_raise(proc.i))
                               /\ proc' = [proc EXCEPT
                                     !.failed_tests = @ + 1,
                                     !.i = after_raise(@),
                                     !.calls = calls,
                                     !.used = used,
                                     !.ran = Append(@, entry)]
                          ELSE /\ pc' = LoopTarget(proc.i + 1)
                               /\ proc' = [proc EXCEPT
                                     !.successful_tests = @ + 1,
                                     !.i = @ + 1,
                                     !.calls = calls,
                                     !.used = used,
                                     !.ran = Append(@, entry)]
    /\ UNCHANGED <<regVars, req, probe, val, web>>

\* run_all_api_tests lines 617-622: the final report.
ApiReport ==
    /\ pc = "api_report"
    /\ pc' = api_unwind("none")
    /\ proc' = [proc EXCEPT !.reported = <<proc.successful_tests, proc.failed_tests>>]
    /\ UNCHANGED <<regVars, req, probe, val, web>>

\* run_all_api_tests lines 627-631: the finally clause closes the registry's
\* Sessions (`fails`: the closes that raise), then the function returns or the
\* pending KeyboardInterrupt goes on.
ApiFinally ==
    \E fails \in SUBSET (1..Len(_sessions)) :
        /\ pc = "api_finally"
        /\ close_all_sessions(fails)
        /\ pc' = "api_leave"
        /\ UNCHANGED <<_instance, mgr, proc, req, probe, val, web>>

\* Back in run_all_tests (lines 70-86) and main (lines 270-278):
\* _execute_test_suite gives True for a return; a KeyboardInterrupt passes its
\* `except Exception` and is caught at line 75.
ApiLeave ==
    /\ pc = "api_leave"
    /\ IF proc.pending = "KeyboardInterrupt"
       THEN RunnerInterrupted(proc.interrupted)
       ELSE LET api_ok == _execute_test_suite(run_all_api_tests_raises(proc.failed_tests))
            IN  /\ pc' = "exited"
                /\ proc' = [proc EXCEPT
                      !.api_test_success = api_ok,
                      !.exit_code = main_exit_code(proc.web_test_success /\ api_ok)]
    /\ UNCHANGED <<regVars, req, probe, val, web>>

Next ==
    \/ CheckEnvironment
    \/ MainSleep
    \/ WebSuite
    \/ PhaseSleep
    \/ ApiEnter
    \/ ScenarioStart
    \/ ScenarioStep
    \/ ApiReport
    \/ ApiFinally
    \/ ApiLeave

Spec == Init /\ [][Next]_vars

\* -------------------------------------------------------- process claims

\* run_all_api_tests has been entered.
ApiEntered == pc \in {"scenario", "step", "api_report", "api_finally", "api_leave"}
                 \/ (pc = "exited" /\ proc.i >= 1)

\* Scenarios of `ran` with the given outcome.
Count(outcome) ==
    Cardinality({k \in 1..Len(proc.ran) : proc.ran[k].outcome = outcome})

\* C2 (as stated): when at least one API scenario failed the process exits with
\* a non-zero status; it exits 0 only when every scenario succeeded.
C2_FailureGivesNonZeroExit ==
    pc = "exited" =>
        /\ Count("raised") > 0 => proc.exit_code # 0
        /\ (proc.exit_code = 0) => Count("returned") = Len(test_functions)

\* C3: on every way out of run_all_api_tests (all scenarios returned, some
\* raised, a KeyboardInterrupt arrived while a scenario ran) close_all_sessions
\* has run exactly once when the function is left, hence before the process
\* exits; it has not run before the finally clause, and never runs twice.
C3_TeardownExactlyOnce ==
    /\ closeCalls <= 1
    /\ pc \in {"scenario", "step", "api_report", "api_finally"} => closeCalls = 0
    /\ pc = "api_leave" => closeCalls = 1
    /\ (pc = "exited" /\ ApiEntered) => closeCalls = 1
    /\ (pc = "exited" /\ ~ApiEntered) => closeCalls = 0

\* C3 witness: the process has exited after a KeyboardInterrupt in the second
\* scenario, the first having raised, and the teardown has run once.
C3_Witness ==
    /\ pc = "exited"
    /\ proc.interrupted = "scenario"
    /\ Len(proc.ran) = 2
    /\ proc.ran[1].outcome = "raised"
    /\ closeCalls = 1

\* C4: the scenarios run are always the first ones of the list, in list order,
\* each once, whatever the earlier ones did; at report time all of them have
\* run, the success count is the number that returned and the failure count
\* the number that raised.
C4_EveryScenarioCounted ==
    /\ Len(proc.ran) <= Len(test_functions)
    /\ \A k \in 1..Len(proc.ran) : proc.ran[k].name = test_functions[k]
    /\ proc.reported # <<>> =>
          /\ Len(proc.ran) = Len(test_functions)
          /\ proc.reported = <<Count("returned"), Count("raised")>>
          /\ proc.reported[1] + proc.reported[2] = Len(test_functions)
    /\ pc = "api_report" => Len(proc.ran) = Len(test_functions)

\* C4 witness: the first scenario raised, the second still ran and returned,
\* and the report shows one success and one failure.
C4_Witness ==
    /\ proc.reported = <<1, 1>>
    /\ proc.ran[1].outcome = "raised"
    /\ proc.ran[2].outcome = "returned"

\* C5 (as stated): a KeyboardInterrupt at any point of the run makes the
\* process exit with a code other than 0 (success) and 1 (failure).
C5_InterruptExitCodeDistinct ==
    (pc = "exited" /\ proc.interrupted # "none") => proc.exit_code \notin {0, 1}

\* Validation finds a violation of the schema in the document.
Violates(doc, schema) == iter_errors(doc, schema) # {}
SchemaOfScenario(name) ==
    IF name = "test_reqres_api" THEN REQRES_USER_SCHEMA ELSE JSONPLACEHOLDER_POST_SCHEMA
\* The checks of the calls of the scenario before call `step`, `n` documents
\* having been validated.
RECURSIVE ChecksBefore(_, _, _)
ChecksBefore(name, step, n) ==
    IF step <= 1 THEN 0
    ELSE LET prev == ScenarioSteps(name)[step - 1]
         IN  ChecksBefore(name, step - 1, n)
             + Len(StepChecks(prev, [k \in 1..(IF StepValidates(prev) THEN n ELSE 0) |-> ValidPost]))

\* C17: a document that validation rejects ends the scenario: while a
\* scenario still runs, validation has accepted every document it validated;
\* a scenario that validated a rejected document ended with the
\* ValidationError raised, at that document (the last one validated), and the
\* orchestrator counted it as failed.
C17_SchemaViolationFatal ==
    /\ pc = "step" =>
          \A k \in 1..Len(proc.validated) :
              ~Violates(proc.validated[k], SchemaOfScenario(test_functions[proc.i]))
    /\ \A s \in 1..Len(proc.ran) :
          LET r == proc.ran[s]
              bad == {k \in 1..Len(r.validated) :
                        Violates(r.validated[k], SchemaOfScenario(r.name))}
          IN  bad # {} =>
                /\ r.outcome = "raised"
                /\ r.exc = "ValidationError"
                /\ bad = {Len(r.validated)}
                /\ proc.failed_tests >= Cardinality({t \in 1..s : proc.ran[t].outcome = "raised"})

\* C17 witness: the first scenario validated a conforming post and then one
\* with an undeclared field, and was counted as failed.
C17_Witness ==
    /\ Len(proc.ran) >= 1
    /\ proc.ran[1].exc = "ValidationError"
    /\ Len(proc.ran[1].validated) = 2
    /\ proc.ran[1].step = 5
    /\ proc.failed_tests >= 1

\* C18: a scenario in which an assertion failed is recorded as raised, never
\* as successful; it ran the checks up to the failing assert and none after
\* it; and the orchestrator's counters show it as a failure.
C18_FailFast ==
    /\ \A s \in 1..Len(proc.ran) :
          LET r == proc.ran[s]
          IN  r.exc = "AssertionError" =>
                /\ r.outcome = "raised"
                /\ r.check >= 1
                /\ r.checks_run = ChecksBefore(r.name, r.step, Len(r.validated)) + r.check
    /\ pc \in {"scenario", "step", "api_report"} =>
          /\ proc.failed_tests = Count("raised")
          /\ proc.successful_tests = Count("returned")
          /\ \A s \in 1..Len(proc.ran) :
                proc.ran[s].outcome = "returned" => proc.ran[s].exc = "none"

\* C18 witness: the second scenario failed the assert after its validation
\* loop (the 14th check of _test_reqres_users with one document validated)
\* and the run was reported with that failure.
C18_Witness ==
    /\ Len(proc.ran) = 2
    /\ proc.ran[2].exc = "AssertionError"
    /\ proc.ran[2].step = 1
    /\ proc.ran[2].check = 14
    /\ Len(proc.ran[2].validated) = 1
    /\ proc.reported # <<>>
    /\ proc.reported[2] >= 1

\* The calls of the JSONPlaceholder scenario as the claim orders them.
ClaimedOrder ==
    <<"_get_jsonplaceholder_data posts", "_get_jsonplaceholder_data comments",
      "_get_jsonplaceholder_data users", "_validate_jsonplaceholder_schemas",
      "_test_jsonplaceholder_crud", "_test_jsonplaceholder_relationships",
      "_test_jsonplaceholder_negative_cases">>
\* The calls in the order of lines 215-229.
CodeOrder ==
    <<"_get_jsonplaceholder_data posts", "_get_jsonplaceholder_data comments",
      "_get_jsonplaceholder_data users", "_test_jsonplaceholder_crud",
      "_validate_jsonplaceholder_schemas", "_test_jsonplaceholder_relationships",
      "_test_jsonplaceholder_negative_cases">>
\* The calls the JSONPlaceholder scenario has started are the first ones of
\* the order.
StartedInOrder(order) ==
    proc.calls.name = "test_jsonplaceholder_api" =>
        /\ Len(proc.calls.steps) <= Len(order)
        /\ \A k \in 1..Len(proc.calls.steps) : proc.calls.steps[k] = order[k]

\* C22 (as stated): the JSONPlaceholder scenario runs its calls in the order
\* read, validate schema, create/update/delete, relationships, negative
\* cases; the posts are validated before any create/update/delete request.
C22_ValidateThenCrud == StartedInOrder(ClaimedOrder)

\* C22 (amended): the order is read, create/update/delete, validate schema,
\* relationships, negative cases; the posts are validated after the
\* create/update/delete requests.
C22_CrudThenValidate == StartedInOrder(CodeOrder)

\* C22 witness: the scenario has started all its calls.
C22_Witness ==
    /\ proc.calls.name = "test_jsonplaceholder_api"
    /\ Len(proc.calls.steps) = 7
    /\ proc.calls.steps[4] = "_test_jsonplaceholder_crud"
    /\ proc.calls.steps[5] = "_validate_jsonplaceholder_schemas"

\* The Sessions the registry holds.
Held == {_sessions[k].session : k \in 1..Len(_sessions)}
\* The Sessions constructed on which close() has not been called.
Live == {i \in 1..Len(heap) : ~heap[i].closed /\ (closeCalls > 0 => i \notin closeRec.tried)}

\* C23: every request of a scenario or of the probe goes out on a Session the
\* registry made and holds (held until the teardown); the live Sessions are
\* at every moment exactly those the registry holds, and they are no more
\* than the names asked for.
C23_SessionsFromRegistry ==
    /\ proc.used \subseteq (IF closeCalls = 0 THEN Held ELSE closeRec.held)
    /\ pc = "step" => proc.session = SessionOf(_sessions, ScenarioApiName(test_functions[proc.i]))
    /\ Live = Held
    /\ Cardinality(Held) <= Cardinality({n \in ApiNames : constructed[n] > 0})
    /\ closeCalls = 0 => Cardinality(Held) = Cardinality({n \in ApiNames : returned[n] # <<>>})

\* C23 witness: the second scenario is at its probe, requests have gone out
\* on two Sessions and the registry holds both.
C23_Witness ==
    /\ pc = "step"
    /\ proc.i = 2
    /\ proc.step = 3
    /\ proc.used = {1, 2}
    /\ Held = {1, 2}

\* C24: whenever run_all_api_tests was entered and no KeyboardInterrupt
\* arrived, it returned and _execute_test_suite recorded the API suite as
\* successful, whatever the scenarios did.
C24_ApiSuiteAlwaysSuccessful ==
    (pc = "exited" /\ ApiEntered /\ proc.interrupted = "none") =>
        /\ proc.api_test_success
        /\ Len(proc.ran) = Len(test_functions)
        /\ closeCalls = 1

\* C24 witness: both scenarios raised and the API suite was recorded as
\* successful.
C24_Witness ==
    /\ pc = "exited"
    /\ Count("raised") = 2
    /\ proc.interrupted = "none"
    /\ proc.api_test_success

\* C26: every HTTPSessionManager() of the process returned the same object;
\* the Sessions the scenarios created through their handles are all in the
\* map close_all_sessions works on through the handle of run_all_api_tests:
\* it calls close() on each of them and empties the map.
C26_OneManagerOneMap ==
    /\ mgr.objects <= 1
    /\ mgr.handles \subseteq {1}
    /\ pc \in {"api_leave", "exited"} /\ closeCalls > 0 =>
          /\ closeRec.held = 1..Len(heap)
          /\ closeRec.tried = closeRec.held
          /\ \A i \in closeRec.held \ closeRec.failed : heap[i].closed
          /\ _sessions = <<>>

\* C26 witness: three handles were taken (run_all_api_tests and the two
\* scenarios), both scenarios' Sessions were closed by the teardown.
C26_Witness ==
    /\ pc = "api_leave"
    /\ mgr.handles = {1}
    /\ closeRec.held = {1, 2}
    /\ heap[1].closed /\ heap[2].closed

====
